---- MODULE Spec2Model ----
(***************************************************************************)
(* MiniPlayer: the playback / track-list coordination of                   *)
(* miniplayer/ui/main_window.py (MainWindow) over                          *)
(* miniplayer/core/audio_player.py (AudioPlayer).                          *)
(*                                                                         *)
(* Everything runs on the one GUI thread.  A user action, a fade timer     *)
(* tick or an end of track is one step of the model; the notifications a   *)
(* command provokes (QMediaPlayer reports a state change from inside       *)
(* stop() / play() / setSource()) are handled inside that step, as the     *)
(* direct signal connections of connect_signals do.                        *)
(*                                                                         *)
(* The handlers are operators from a record of the program state to the    *)
(* record after the handler; Cur reads the record from the variables and   *)
(* Install writes it back.                                                 *)
(***************************************************************************)
EXTENDS Integers, Sequences, FiniteSets, TLC

\* ------------------------------------------------------------- bounds
MaxTracks == 3      \* tracks in the music folder
MaxRefade == 1      \* fade_out calls made while a fade is running, in a run
Duration  == 1      \* length of every track, in abstract position units
TickCap   == 12     \* the tick counter saturates here

\* ------------------------------------------------- program constants
fade_steps     == 10
DefaultVolume  == 50
SliderMin      == 0
SliderMax      == 100
DefaultSpeed   == 100
SpeedMin       == 50
SpeedMax       == 150

RECURSIVE Pow10(_)
Pow10(n) == IF n = 0 THEN 1 ELSE 10 * Pow10(n - 1)

\* The gain of the audio output is a float in [0, 1].  It is kept here in
\* units of 1 / (100 * GainScale), fine enough for every division by
\* fade_steps the bounded number of nested fades can make to be exact.
GainScale == Pow10(MaxRefade + 1)

\* volume / 100.0
Gain(v) == v * GainScale

\* The rounding of one float subtraction: below, exact or above the real
\* difference (only the sign matters, and only when the real difference
\* equals the value it is compared with).
RoundErr == {-1, 0, 1}

VolumeLevels == {0, 50}

\* The values of the speed slider that are tried
SpeedLevels == {DefaultSpeed, SpeedMax}

Max(a, b) == IF a >= b THEN a ELSE b
Min(a, b) == IF a <= b THEN a ELSE b

\* ------------------------------------------------------ the file system
\* One music folder (folder 1; 0 is "no folder") holding the tracks
\* 1 .. MaxTracks; 0 is "no track".
Folders == {1}
NoTrack == 0
AllTracks == 1 .. MaxTracks

\* TrackManager.scan_folder: the relative paths of the folder, in walk order
scan_folder(f) == IF f = 0 THEN << >> ELSE [i \in 1 .. MaxTracks |-> i]

\* At most one file is missing when an event is handled.
MissingChoices == {{}} \cup {{t} : t \in AllTracks}

VARIABLES
    repeat,               \* btn_repeat.isChecked()
    play_all,             \* btn_play_all.isChecked()
    mute,                 \* btn_mute.isChecked()
    volume,               \* volume_slider.value(), 0..100
    speed,                \* speed_slider.value(), 50..150
    rate,                 \* media_player.playbackRate(), in percent
    ignore_auto_advance,  \* MainWindow.ignore_auto_advance
    user_stopped,         \* MainWindow.user_stopped
    current_folder,       \* TrackManager.current_folder (0: None)
    playlist,             \* the items of the playlist widget
    current_row,          \* playlist.currentRow(), -1 when nothing is selected
    current_track,        \* AudioPlayer.current_track_url (NoTrack: None)
    pstate,               \* media_player.playbackState()
    pos,                  \* media_player.position(), Duration at the end
    gain,                 \* audio_output.volume()
    gain_err,             \* sign of the rounding error carried by gain
    original_volume,      \* AudioPlayer.original_volume
    fade_active,          \* fade_timer.isActive()
    settings,             \* the Settings section of ConfigManager, as saved
    ticks,                \* fade timer ticks since the last fade_out
    refades,              \* fade_out calls made while a fade was running
    base0,                \* gain when the current fade was first requested
    cm,                   \* a ConfigManager, its file, and a second one
                          \* constructed from that file
    tm,                   \* a TrackManager
    disk                  \* the files there are under the music folder

vars == <<repeat, play_all, mute, volume, speed, rate, ignore_auto_advance, user_stopped,
          current_folder, playlist, current_row, current_track, pstate, pos,
          gain, gain_err, original_volume, fade_active, settings,
          ticks, refades, base0, cm, tm, disk>>

\* The program state as one record.  missing is the input of the event
\* being handled (the files that do not exist while it runs) and cmds its
\* output (the commands sent to the audio service, and "warn" for a
\* QMessageBox.warning, in order).
Cur(m) ==
    [repeat |-> repeat, play_all |-> play_all, mute |-> mute, volume |-> volume,
     speed |-> speed, rate |-> rate,
     ignore_auto_advance |-> ignore_auto_advance, user_stopped |-> user_stopped,
     current_folder |-> current_folder, playlist |-> playlist,
     current_row |-> current_row, current_track |-> current_track,
     pstate |-> pstate, pos |-> pos, gain |-> gain, gain_err |-> gain_err,
     original_volume |-> original_volume, fade_active |-> fade_active,
     settings |-> settings, cmds |-> << >>, timers |-> << >>, calls |-> 0,
     ticks |-> ticks,
     refades |-> refades, base0 |-> base0, missing |-> m]

Install(s) ==
    /\ repeat' = s.repeat
    /\ play_all' = s.play_all
    /\ mute' = s.mute
    /\ volume' = s.volume
    /\ speed' = s.speed
    /\ rate' = s.rate
    /\ ignore_auto_advance' = s.ignore_auto_advance
    /\ user_stopped' = s.user_stopped
    /\ current_folder' = s.current_folder
    /\ playlist' = s.playlist
    /\ current_row' = s.current_row
    /\ current_track' = s.current_track
    /\ pstate' = s.pstate
    /\ pos' = s.pos
    /\ gain' = s.gain
    /\ gain_err' = s.gain_err
    /\ original_volume' = s.original_volume
    /\ fade_active' = s.fade_active
    /\ settings' = s.settings
    /\ ticks' = s.ticks
    /\ refades' = s.refades
    /\ base0' = s.base0
    /\ UNCHANGED <<cm, tm, disk>>

Cmd(s, c) == [s EXCEPT !.cmds = Append(@, c)]
\* self.timer.start() and self.timer.stop() of the position timer, in timers
Timer(s, c) == [s EXCEPT !.timers = Append(@, c)]
\* A handler of MainWindow is entered: calls counts the invocations of
\* play_selected_track and of handle_playback_state_changed (for Stopped)
\* made while one event is handled
Enter(s) == [s EXCEPT !.calls = @ + 1]
count(s) == Len(s.playlist)
is_playing(s) == s.pstate = "Playing"
is_stopped(s) == s.pstate = "Stopped"

\* ------------------------------------------------------ ConfigManager
\* MainWindow.save_settings: every widget value is set in the section and
\* the section is written.  last_folder and last_track are written too;
\* they are read at startup only and are not kept here.
save_settings(s) ==
    [s EXCEPT !.settings =
        [volume   |-> s.volume,
         speed    |-> s.speed,
         repeat   |-> s.repeat,
         mute     |-> s.mute,
         play_all |-> s.play_all]]

\* ------------------------------------------- ConfigManager, on its own
\* Strings are sequences of characters.
MaxLen == 2      \* length of the folder and track strings that are tried

PathChars == {"a", " ", "%"}

RECURSIVE StringsUpTo(_)
StringsUpTo(n) ==
    IF n = 0 THEN {<< >>}
    ELSE LET shorter == StringsUpTo(n - 1)
         IN  shorter \cup {Append(v, c) : v \in {w \in shorter : Len(w) = n - 1},
                                          c \in PathChars}

PathStrings == StringsUpTo(MaxLen)

\* str(n) for an int n >= 0
DigitChars == <<"0", "1", "2", "3", "4", "5", "6", "7", "8", "9">>

RECURSIVE StrInt(_)
StrInt(n) ==
    IF n < 10 THEN << DigitChars[n + 1] >>
    ELSE Append(StrInt(n \div 10), DigitChars[(n % 10) + 1])

\* str(b) for a bool b
StrBool(b) == IF b THEN <<"T", "r", "u", "e">> ELSE <<"F", "a", "l", "s", "e">>

\* str.lower()
LowerChar(c) ==
    CASE c = "T" -> "t"
      [] c = "F" -> "f"
      [] c = "O" -> "o"
      [] c = "G" -> "g"
      [] OTHER -> c

Lower(v) == [i \in 1 .. Len(v) |-> LowerChar(v[i])]

\* str.strip(), for the blank
RECURSIVE LStrip(_), RStrip(_)
LStrip(v) == IF v # << >> /\ Head(v) = " " THEN LStrip(Tail(v)) ELSE v
RStrip(v) ==
    IF v # << >> /\ v[Len(v)] = " " THEN RStrip(SubSeq(v, 1, Len(v) - 1)) ELSE v
Strip(v) == LStrip(RStrip(v))

\* value.replace("%%", "")
RECURSIVE DropEscapes(_)
DropEscapes(v) ==
    IF Len(v) >= 2 /\ v[1] = "%" /\ v[2] = "%" THEN DropEscapes(SubSeq(v, 3, Len(v)))
    ELSE IF v = << >> THEN v
    ELSE << Head(v) >> \o DropEscapes(Tail(v))

\* BasicInterpolation.before_set accepts the value: no "%" is left once the
\* "%%" are taken out (there is no "(" among the characters, so no %(name)s)
ValidValue(v) == \A i \in 1 .. Len(DropEscapes(v)) : DropEscapes(v)[i] # "%"

\* BasicInterpolation.before_get on a value before_set accepted: "%%" -> "%"
RECURSIVE Interpolated(_)
Interpolated(v) ==
    IF Len(v) >= 2 /\ v[1] = "%" /\ v[2] = "%"
    THEN <<"%">> \o Interpolated(SubSeq(v, 3, Len(v)))
    ELSE IF v = << >> THEN v
    ELSE << Head(v) >> \o Interpolated(Tail(v))

Keys == {"volume", "speed", "repeat", "mute", "play_all",
         "last_folder", "last_track"}

\* ConfigManager.defaults
defaults ==
    [k \in Keys |->
        CASE k = "volume" -> StrInt(DefaultVolume)
          [] k = "speed" -> StrInt(DefaultSpeed)
          [] k \in {"repeat", "mute", "play_all"} -> StrBool(FALSE)
          [] OTHER -> << >>]

\* The values MainWindow.save_settings passes to ConfigManager.set
ValuesFor(k) ==
    CASE k = "volume" -> {StrInt(n) : n \in VolumeLevels}
      [] k = "speed" -> {StrInt(n) : n \in SpeedLevels}
      [] k \in {"repeat", "mute", "play_all"} -> {StrBool(b) : b \in BOOLEAN}
      [] OTHER -> PathStrings

\* A section with no key, and a section with key k set to v
NoSection == [k \in {} |-> << >>]
Put(sec, k, v) ==
    [x \in DOMAIN sec \cup {k} |-> IF x = k THEN v ELSE sec[x]]

\* ConfigManager.set on the section sec: the section after it, or the
\* ValueError of configparser
ConfigManager_set(c, k, v) ==
    IF ValidValue(v) THEN [c EXCEPT !.section = Put(@, k, v)]
    ELSE [c EXCEPT !.raised = "ValueError"]

\* ConfigManager.get
ConfigManager_get(c, k) == Interpolated(c.section[k])

\* ConfigManager.save_settings and the parser's reading of what it wrote:
\* a "key = value" line for every key of the section, the value stripped
\* when read
FileRead(c) == [k \in DOMAIN c.section |-> Strip(c.section[k])]

\* "for key, value in settings.items(): self.config.set(...)"
RECURSIVE SetAll(_, _, _)
SetAll(c, values, ks) ==
    IF ks = {} \/ c.raised # "none" THEN c
    ELSE LET k == CHOOSE x \in ks : TRUE
         IN  SetAll(ConfigManager_set(c, k, values[k]), values, ks \ {k})

\* The defaults, overridden by what the file holds, read through the
\* interpolation
SettingsOf(file) ==
    [k \in Keys |-> IF k \in DOMAIN file THEN Interpolated(file[k])
                    ELSE defaults[k]]

\* load_settings setting only the keys found in the file
ConfigManager_load_found_only(file) ==
    SetAll([section |-> NoSection, raised |-> "none"], SettingsOf(file),
           DOMAIN file)

\* ConfigManager.__init__ over the file (no key: no file, or no section):
\* load_settings sets every key of settings
ConfigManager_load(file) ==
    SetAll([section |-> NoSection, raised |-> "none"], SettingsOf(file), Keys)

\* ConfigManager.__init__ without a file
ConfigManager_new == ConfigManager_load(NoSection)

\* int(), over the characters there are: blanks stripped, then digits
IsInt(v) ==
    /\ Strip(v) # << >>
    /\ \A i \in 1 .. Len(Strip(v)) :
           \E d \in 1 .. 10 : Strip(v)[i] = DigitChars[d]

DigitValue(c) == (CHOOSE d \in 1 .. 10 : DigitChars[d] = c) - 1

RECURSIVE IntOf(_)
IntOf(w) ==
    IF w = << >> THEN 0
    ELSE 10 * IntOf(SubSeq(w, 1, Len(w) - 1)) + DigitValue(w[Len(w)])

\* ConfigManager.get_int
get_int(c, k, fallback) ==
    IF IsInt(ConfigManager_get(c, k)) THEN IntOf(Strip(ConfigManager_get(c, k)))
    ELSE fallback

TrueStrings == {<<"t", "r", "u", "e">>, <<"y", "e", "s">>, <<"1">>, <<"o", "n">>}

\* ConfigManager.get_bool
get_bool(c, k, fallback) == Lower(ConfigManager_get(c, k)) \in TrueStrings

\* The store before any use
ConfigFresh ==
    [a |-> ConfigManager_new, saved |-> FALSE, file |-> NoSection,
     cut |-> FALSE, opened |-> FALSE, b |-> ConfigManager_new]

\* --------------------------------------------- TrackManager, on its own
\* The music folder is the directory 0; directory d + 1 is the sub-directory
\* of directory d, down to MaxDepth.  A file is a directory and a name, and
\* at most MaxFiles files exist.
MaxDepth == 1
MaxFiles == 2

BaseName == <<"m">>
SubName == <<"s">>

\* The file names there can be, in the order a directory lists them
NameOrder ==
    << <<"a", ".", "m", "p", "3">>,
       <<"b", ".", "O", "g", "g">>,
       <<"c", ".", "t", "x", "t">>,
       <<"w", "a", "v">>,
       <<".", "f", "l", "a", "c">> >>

FileNames == {NameOrder[i] : i \in 1 .. Len(NameOrder)}

Candidates == [d : 0 .. MaxDepth, name : FileNames]

Disks == {D \in SUBSET Candidates : Cardinality(D) <= MaxFiles}

\* TrackManager.supported_extensions
supported_extensions ==
    {<<".", "m", "p", "3">>, <<".", "f", "l", "a", "c">>,
     <<".", "w", "a", "v">>, <<".", "o", "g", "g">>}

\* str.endswith
EndsWith(v, e) ==
    Len(v) >= Len(e) /\ SubSeq(v, Len(v) - Len(e) + 1, Len(v)) = e

\* The test of the extension without lower()
Supported_as_written(name) == \E e \in supported_extensions : EndsWith(name, e)

\* file.lower().endswith(self.supported_extensions)
Supported(name) == \E e \in supported_extensions : EndsWith(Lower(name), e)

\* The path of directory d, and the path of file f relative to directory root
DirPath(d) == <<BaseName>> \o [i \in 1 .. d |-> SubName]
RelPath(root, f) == [i \in 1 .. (f.d - root) |-> SubName] \o <<f.name>>

\* os.walk from directory d: the files of d, then those of its sub-directory
RECURSIVE Walk(_, _)
Walk(fs, d) ==
    IF d > MaxDepth THEN << >>
    ELSE LET names == SelectSeq(NameOrder, LAMBDA n : [d |-> d, name |-> n] \in fs)
         IN  [i \in 1 .. Len(names) |-> [d |-> d, name |-> names[i]]]
             \o Walk(fs, d + 1)

NoFolder == -1

\* TrackManager.__init__; ok is what the last set_folder returned, returned
\* what the last scan_folder returned, cancel_at the number of files found
\* when the callback of the last scan first answered False (0: it never did),
\* resolved the result of the last get_absolute_path, filtered that of the
\* last filter_tracks
TrackManager_new ==
    [current_folder |-> NoFolder, track_list |-> << >>, ok |-> TRUE,
     returned |-> << >>, cancel_at |-> 0, filtered |-> << >>,
     resolved |-> [called |-> FALSE, raised |-> "none", is_none |-> FALSE,
                   path |-> << >>]]

\* The second loop of scan_folder over the walk; the callback is called and
\* what it returns is dropped
RECURSIVE ScanLoop(_, _, _)
ScanLoop(files, root, result) ==
    IF files = << >> THEN result
    ELSE ScanLoop(Tail(files), root,
                  IF Supported(Head(files).name)
                  THEN Append(result, RelPath(root, Head(files)))
                  ELSE result)

\* TrackManager.scan_folder(callback), the callback answering False from the
\* cancel_at-th file found on
TrackManager_scan_folder(m, fs, cancel_at) ==
    IF m.current_folder = NoFolder
    THEN [m EXCEPT !.returned = << >>, !.cancel_at = cancel_at]
    ELSE LET result == ScanLoop(Walk(fs, m.current_folder), m.current_folder, << >>)
         IN  [m EXCEPT !.track_list = result, !.returned = result,
                       !.cancel_at = cancel_at]

\* The paths set_folder is tried with: a directory, a file, nothing
PathArgs ==
    [kind : {"dir"}, d : 0 .. MaxDepth, name : {<< >>}]
        \cup [kind : {"file"}, d : {0}, name : FileNames]
        \cup {[kind |-> "absent", d |-> 0, name |-> << >>]}

exists(fs, p) ==
    \/ p.kind = "dir"
    \/ p.kind = "file" /\ [d |-> p.d, name |-> p.name] \in fs

is_dir(fs, p) == p.kind = "dir"

\* set_folder taking whatever path exists, directory or not
TrackManager_set_folder_any(m, fs, p) ==
    IF ~exists(fs, p) THEN [m EXCEPT !.ok = FALSE]
    ELSE [TrackManager_scan_folder([m EXCEPT !.current_folder = p.d], fs, 0)
             EXCEPT !.ok = TRUE]

\* TrackManager.set_folder
TrackManager_set_folder(m, fs, p) ==
    IF ~exists(fs, p) \/ ~is_dir(fs, p) THEN [m EXCEPT !.ok = FALSE]
    ELSE [TrackManager_scan_folder([m EXCEPT !.current_folder = p.d], fs, 0)
             EXCEPT !.ok = TRUE]

\* A relative path as the string os.path.relpath gives
RECURSIVE PathStr(_)
PathStr(rel) ==
    IF Len(rel) = 1 THEN rel[1]
    ELSE rel[1] \o <<"/">> \o PathStr(Tail(rel))

\* sub in v
Contains(v, sub) ==
    \E i \in 0 .. Len(v) - Len(sub) : SubSeq(v, i + 1, i + Len(sub)) = sub

\* The texts typed in the search box
SearchTexts ==
    {<< >>, <<"O", "G", "G">>, <<"s", "/">>, <<"m", "p">>, <<"x">>}

\* filter_tracks comparing the text as typed with the lower-cased track
filter_tracks_as_typed(m, search_text) ==
    IF search_text = << >>
    THEN [i \in 1 .. Len(m.track_list) |-> <<m.track_list[i], TRUE>>]
    ELSE [i \in 1 .. Len(m.track_list) |->
              <<m.track_list[i],
                Contains(Lower(PathStr(m.track_list[i])), search_text)>>]

\* TrackManager.filter_tracks
filter_tracks(m, search_text) ==
    IF search_text = << >>
    THEN [i \in 1 .. Len(m.track_list) |-> <<m.track_list[i], TRUE>>]
    ELSE LET search_lower == Lower(search_text)
         IN  [i \in 1 .. Len(m.track_list) |->
                  <<m.track_list[i],
                    Contains(Lower(PathStr(m.track_list[i])), search_lower)>>]

\* TrackManager.get_absolute_path
get_absolute_path(m, rel) ==
    IF m.current_folder = NoFolder
    THEN [called |-> TRUE, raised |-> "none", is_none |-> TRUE, path |-> << >>]
    ELSE [called |-> TRUE, raised |-> "none", is_none |-> FALSE,
          path |-> DirPath(m.current_folder) \o rel]

\* --------------------------------------------------------- AudioPlayer
\* AudioPlayer.set_volume: the value is stored exactly
set_volume(s, g) == [s EXCEPT !.gain = g, !.gain_err = 0]

\* AudioPlayer.set_playback_rate
set_playback_rate(s, r) == Cmd([s EXCEPT !.rate = r], "rate")

RECURSIVE media_stop(_), stop(_), media_set_source(_, _), load_track(_, _),
          play_selected_track(_), handle_playback_state_changed(_, _)

\* QMediaPlayer.play(): nothing without a source; otherwise Playing, from
\* the start when the position is the end.  The Playing notification is
\* handled by handle_playback_state_changed, which ignores it.
media_play(s) ==
    IF s.current_track = NoTrack THEN s
    ELSE [s EXCEPT !.pstate = "Playing",
                   !.pos = IF @ = Duration THEN 0 ELSE @]

\* AudioPlayer.play
play(s) == Timer(media_play(Cmd(s, "play")), "start")

\* QMediaPlayer.pause(), with the (ignored) Paused notification
media_pause(s) ==
    IF s.current_track = NoTrack THEN s ELSE [s EXCEPT !.pstate = "Paused"]

\* AudioPlayer.pause
pause(s) == Timer(media_pause(Cmd(s, "pause")), "stop")

\* QMediaPlayer.setPosition()
seek(s, p) ==
    LET t == Cmd(s, "seek")
    IN  IF t.current_track = NoTrack THEN t ELSE [t EXCEPT !.pos = p]

\* QMediaPlayer.stop(): when the player is not Stopped it goes to position 0
\* and reports Stopped to MainWindow before stop() returns.
media_stop(s) ==
    IF s.pstate = "Stopped" THEN s
    ELSE handle_playback_state_changed(
             [s EXCEPT !.pstate = "Stopped", !.pos = 0], "Stopped")

\* AudioPlayer.stop
stop(s) == Timer(media_stop(Cmd(s, "stop")), "stop")

\* QMediaPlayer.setSource(): stops first, then takes the new source
media_set_source(s, t) ==
    LET u == media_stop(s)
    IN  [u EXCEPT !.pos = 0]

\* AudioPlayer.load_track
load_track(s, t) ==
    IF t \in s.missing THEN s
    ELSE media_set_source([Cmd(s, "load") EXCEPT !.current_track = t], t)

\* AudioPlayer.fade_out
fade_out(s) ==
    IF is_stopped(s) THEN s
    ELSE [s EXCEPT !.original_volume = s.gain,
                   !.fade_active = TRUE,
                   !.ticks = 0,
                   !.refades = IF s.fade_active THEN @ + 1 ELSE @,
                   !.base0 = IF s.fade_active THEN @ ELSE s.gain]

\* AudioPlayer._fade_step, e the rounding of the subtraction
fade_step(s, e) ==
    LET current_volume == s.gain
        step_size == s.original_volume \div fade_steps
        t == [s EXCEPT !.ticks = IF @ < TickCap THEN @ + 1 ELSE @]
    IN  IF \/ current_volume > step_size
           \/ current_volume = step_size /\ s.gain_err > 0
        THEN LET new_volume == Max(0, current_volume - step_size)
             IN  [t EXCEPT !.gain = new_volume,
                           !.gain_err = IF step_size = 0 THEN s.gain_err
                                        ELSE IF new_volume = 0 THEN Max(0, e)
                                        ELSE IF new_volume = step_size THEN e
                                        ELSE 0]
        ELSE LET u == [t EXCEPT !.fade_active = FALSE,
                                !.base0 = 0, !.ticks = 0]
                 v == media_stop(Cmd(set_volume(u, 0), "stop"))
             IN  set_volume(v, s.original_volume)

\* ---------------------------------------------------------- MainWindow
\* play_selected_track without its test that the file exists
play_selected_track_unchecked(s) ==
    IF s.current_row = -1 \/ s.current_folder = 0 THEN Enter(s)
    ELSE
    LET file_path == s.playlist[s.current_row + 1]
        a == IF is_playing(s) THEN stop(Enter(s)) ELSE Enter(s)
        b == [a EXCEPT !.ignore_auto_advance = TRUE]
        c == set_playback_rate(load_track(b, file_path), b.speed)
        d == play(c)
    IN  save_settings(d)

\* MainWindow.play_selected_track
play_selected_track(s) ==
    IF s.current_row = -1 \/ s.current_folder = 0 THEN Enter(s)
    ELSE
    LET file_path == s.playlist[s.current_row + 1]
    IN  IF file_path \in s.missing THEN Cmd(Enter(s), "warn")
        ELSE
        LET a == IF is_playing(s) THEN stop(Enter(s)) ELSE Enter(s)
            b == [a EXCEPT !.ignore_auto_advance = TRUE]
            c == set_playback_rate(load_track(b, file_path), b.speed)
            d == play(c)
        IN  save_settings(d)

\* handle_playback_state_changed without its test of ignore_auto_advance
handle_playback_state_changed_unguarded(s, state) ==
    IF state # "Stopped" THEN s
    ELSE IF s.repeat /\ s.current_track # NoTrack /\ s.pos = Duration
    THEN play(seek(Enter(s), 0))
    ELSE IF s.play_all /\ s.current_row < count(s) - 1
    THEN play_selected_track([Enter(s) EXCEPT !.current_row = @ + 1])
    ELSE Enter(s)

\* MainWindow.handle_playback_state_changed
handle_playback_state_changed(s, state) ==
    IF state # "Stopped" THEN s
    ELSE IF s.ignore_auto_advance
    THEN [Enter(s) EXCEPT !.ignore_auto_advance = FALSE]
    ELSE IF s.repeat /\ s.current_track # NoTrack /\ s.pos = Duration
    THEN play(seek(Enter(s), 0))
    ELSE IF s.play_all /\ s.current_row < count(s) - 1
    THEN play_selected_track([Enter(s) EXCEPT !.current_row = @ + 1])
    ELSE Enter(s)

\* handle_media_status_changed with its repeat branch left out
handle_media_status_changed_no_repeat(s) ==
    IF s.play_all /\ s.current_row < count(s) - 1
    THEN play_selected_track([s EXCEPT !.current_row = @ + 1])
    ELSE s

\* handle_media_status_changed going round to the first row after the last
handle_media_status_changed_wraps(s) ==
    IF s.repeat /\ s.current_track # NoTrack
    THEN play(seek(s, 0))
    ELSE IF s.play_all /\ count(s) > 0
    THEN play_selected_track(
             [s EXCEPT !.current_row = IF @ < count(s) - 1 THEN @ + 1 ELSE 0])
    ELSE s

\* MainWindow.handle_media_status_changed, for EndOfMedia
handle_media_status_changed(s) ==
    IF s.repeat /\ s.current_track # NoTrack
    THEN play(seek(s, 0))
    ELSE IF s.play_all /\ s.current_row < count(s) - 1
    THEN play_selected_track([s EXCEPT !.current_row = @ + 1])
    ELSE s

\* MainWindow.toggle_play_pause
toggle_play_pause(s) ==
    IF is_playing(s) THEN pause(s)
    ELSE IF s.current_track = NoTrack THEN play_selected_track(s)
    ELSE play(s)

\* MainWindow.reset_playback
reset_playback(s) ==
    LET a == IF ~is_stopped(s)
             THEN fade_out([s EXCEPT !.user_stopped = TRUE])
             ELSE s
    IN  seek(a, 0)

\* MainWindow.skip_to_next
skip_to_next(s) ==
    IF s.current_row < count(s) - 1
    THEN LET a == [s EXCEPT !.ignore_auto_advance = TRUE,
                            !.current_row = @ + 1]
         IN  IF ~is_stopped(a) THEN play_selected_track(a) ELSE a
    ELSE s

\* MainWindow.skip_to_previous
skip_to_previous(s) ==
    IF s.current_row > 0
    THEN LET a == [s EXCEPT !.ignore_auto_advance = TRUE,
                            !.current_row = @ - 1]
         IN  IF ~is_stopped(a) THEN play_selected_track(a) ELSE a
    ELSE s

\* update_volume without its look at the mute box
update_volume_ignores_mute(s) ==
    save_settings(set_volume(s, Gain(s.volume)))

\* MainWindow.update_speed
update_speed(s) ==
    save_settings(IF is_playing(s) THEN set_playback_rate(s, s.speed) ELSE s)

\* MainWindow.update_volume
update_volume(s) ==
    save_settings(IF ~s.mute THEN set_volume(s, Gain(s.volume)) ELSE s)

\* toggle_mute bringing back the default volume instead of the slider's
toggle_mute_restores_default(s, checked) ==
    save_settings(IF checked THEN set_volume(s, 0)
                  ELSE set_volume(s, Gain(DefaultVolume)))

\* MainWindow.toggle_mute
toggle_mute(s, checked) ==
    save_settings(IF checked THEN set_volume(s, 0)
                  ELSE set_volume(s, Gain(s.volume)))

\* MainWindow.on_repeat_toggled
on_repeat_toggled(s, checked) ==
    IF checked /\ s.play_all THEN [s EXCEPT !.play_all = FALSE] ELSE s

\* on_play_all_toggled leaving the repeat box as it is
on_play_all_toggled_keeps_repeat(s, checked) == s

\* MainWindow.on_play_all_toggled
on_play_all_toggled(s, checked) ==
    IF checked /\ s.repeat THEN [s EXCEPT !.repeat = FALSE] ELSE s

\* QSlider.setValue on volume_slider: clamps, and valueChanged calls
\* update_volume only when the value changes
volume_slider_setValue(s, v) ==
    LET w == Max(SliderMin, Min(SliderMax, v))
    IN  IF w = s.volume THEN s ELSE update_volume([s EXCEPT !.volume = w])

\* QSlider.setValue on speed_slider
speed_slider_setValue(s, v) ==
    LET w == Max(SpeedMin, Min(SpeedMax, v))
    IN  IF w = s.speed THEN s ELSE update_speed([s EXCEPT !.speed = w])

\* QCheckBox.setChecked on the three check boxes: toggled is emitted only
\* when the state changes
btn_repeat_setChecked(s, b) ==
    IF b = s.repeat THEN s ELSE on_repeat_toggled([s EXCEPT !.repeat = b], b)

btn_mute_setChecked(s, b) ==
    IF b = s.mute THEN s ELSE toggle_mute([s EXCEPT !.mute = b], b)

btn_play_all_setChecked(s, b) ==
    IF b = s.play_all THEN s
    ELSE on_play_all_toggled([s EXCEPT !.play_all = b], b)

\* MainWindow.populate_playlist
populate_playlist(s) ==
    LET tracks == scan_folder(s.current_folder)
    IN  [s EXCEPT !.playlist = tracks,
                  !.current_row = IF Len(tracks) > 0 THEN 0 ELSE -1]

\* TrackManager.set_folder, for a folder that exists
set_folder(s, f) == [s EXCEPT !.current_folder = f]

\* The row of the playlist that shows track t, -1 when none does
RowOf(s, t) ==
    IF \E i \in 1 .. count(s) : s.playlist[i] = t
    THEN (CHOOSE i \in 1 .. count(s) : s.playlist[i] = t) - 1
    ELSE -1

\* MainWindow.load_settings, st the values read from the file
load_settings(s, st) ==
    LET a0 == volume_slider_setValue(s, st.volume)
        a == speed_slider_setValue(a0, st.speed)
        b == btn_repeat_setChecked(a, st.repeat)
        c == btn_mute_setChecked(b, st.mute)
        d == btn_play_all_setChecked(c, st.play_all)
        e == IF st.last_folder # 0
             THEN LET p == populate_playlist(set_folder(d, st.last_folder))
                  IN  IF RowOf(p, st.last_track) # -1
                      THEN [p EXCEPT !.current_row = RowOf(p, st.last_track)]
                      ELSE p
             ELSE d
    IN  update_volume(e)

\* MainWindow.open_file_dialog: a folder was chosen (i = 0), or the folder
\* dialog was cancelled and file i of folder f was chosen
open_file_dialog(s, f, i) ==
    IF i = 0 THEN populate_playlist(set_folder(s, f))
    ELSE save_settings([set_folder(s, f) EXCEPT !.playlist = << i >>,
                                               !.current_row = 0])

\* MainWindow.keyPressEvent, Key_Up and Key_Down; a row outside the list
\* selects nothing
\* Key_Down without the min() against the last row
key_down_unclamped(s) == [s EXCEPT !.current_row = s.current_row + 1]

key_up(s) == [s EXCEPT !.current_row =
                 IF count(s) = 0 THEN -1 ELSE Max(0, s.current_row - 1)]
key_down(s) == [s EXCEPT !.current_row = Min(count(s) - 1, s.current_row + 1)]

\* AudioPlayer.__init__ and MainWindow.__init__ before load_settings, with
\* the section ConfigManager read from the file
Constructed(stored) ==
    [repeat |-> FALSE, play_all |-> FALSE, mute |-> FALSE,
     volume |-> DefaultVolume, speed |-> DefaultSpeed, rate |-> 100,
     ignore_auto_advance |-> FALSE, user_stopped |-> FALSE,
     current_folder |-> 0, playlist |-> << >>, current_row |-> -1,
     current_track |-> NoTrack, pstate |-> "Stopped", pos |-> 0,
     gain |-> Gain(DefaultVolume), gain_err |-> 0,
     original_volume |-> Gain(SliderMax), fade_active |-> FALSE,
     settings |-> [volume |-> stored.volume, speed |-> stored.speed,
                   repeat |-> stored.repeat,
                   mute |-> stored.mute, play_all |-> stored.play_all],
     cmds |-> << >>, timers |-> << >>, calls |-> 0, ticks |-> 0, refades |-> 0,
     base0 |-> 0, missing |-> {}]

\* What the settings file can hold at startup
StoredSettings ==
    [volume : VolumeLevels, speed : SpeedLevels,
     repeat : BOOLEAN, mute : BOOLEAN,
     play_all : BOOLEAN, last_folder : {0} \cup Folders,
     last_track : {NoTrack} \cup AllTracks]

\* ------------------------------------------------------------- startup
\* The state after MainWindow.__init__ with the section stored in the file
StartsFrom(stored) ==
        LET s == load_settings(Constructed(stored), stored)
        IN  /\ repeat = s.repeat
            /\ play_all = s.play_all
            /\ mute = s.mute
            /\ volume = s.volume
            /\ speed = s.speed
            /\ rate = s.rate
            /\ ignore_auto_advance = s.ignore_auto_advance
            /\ user_stopped = s.user_stopped
            /\ current_folder = s.current_folder
            /\ playlist = s.playlist
            /\ current_row = s.current_row
            /\ current_track = s.current_track
            /\ pstate = s.pstate
            /\ pos = s.pos
            /\ gain = s.gain
            /\ gain_err = s.gain_err
            /\ original_volume = s.original_volume
            /\ fade_active = s.fade_active
            /\ settings = s.settings
            /\ ticks = s.ticks
            /\ refades = s.refades
            /\ base0 = s.base0

\* A specification that follows no separate ConfigManager, resp. no separate
\* TrackManager, keeps this in cm, resp. tm
Unfollowed == << >>

\* Startup from every stored section that leaves the speed at its default
Init ==
    \E stored \in StoredSettings :
        /\ stored.speed = DefaultSpeed
        /\ StartsFrom(stored)
        /\ cm = Unfollowed /\ tm = Unfollowed /\ disk = {}

\* Startup from every stored speed, the player otherwise as installed
InitSpeed ==
    \E stored \in StoredSettings :
        /\ stored.volume = DefaultVolume /\ ~stored.mute
        /\ StartsFrom(stored)
        /\ cm = Unfollowed /\ tm = Unfollowed /\ disk = {}

\* -------------------------------------------------------- user actions
\* The missing-file choices that can matter to an event whose handlers look
\* at the files of the playlist rows lo .. hi (0-based) only
MissingAt(lo, hi) ==
    {{}} \cup {{playlist[i + 1]} : i \in (lo .. hi) \cap (0 .. Len(playlist) - 1)}

\* btn_repeat clicked (or Ctrl+R)
RepeatClicked ==
    Install(btn_repeat_setChecked(Cur({}), ~repeat))

\* btn_play_all clicked
PlayAllClicked ==
    Install(btn_play_all_setChecked(Cur({}), ~play_all))

\* btn_mute clicked (or Ctrl+M)
MuteClicked == Install(btn_mute_setChecked(Cur({}), ~mute))

\* volume_slider moved to another value
VolumeMoved ==
    \E v \in VolumeLevels :
        /\ v # volume
        /\ Install(volume_slider_setValue(Cur({}), v))

\* speed_slider moved to another value
SpeedMoved ==
    \E v \in SpeedLevels :
        /\ v # speed
        /\ Install(speed_slider_setValue(Cur({}), v))

\* btn_play_pause clicked (or Space)
PlayPauseClicked ==
    \E m \in MissingAt(current_row, current_row + 1) :
        Install(toggle_play_pause(Cur(m)))

\* Return / Enter
EnterPressed ==
    \E m \in MissingAt(current_row, current_row + 1) :
        Install(play_selected_track(Cur(m)))

\* a playlist item double-clicked: it becomes the current item first
ItemDoubleClicked ==
    \E r \in 0 .. Len(playlist) - 1 :
        \E m \in MissingAt(r, r + 1) :
            Install(play_selected_track([Cur(m) EXCEPT !.current_row = r]))

\* a playlist item clicked
ItemClicked ==
    \E r \in 0 .. Len(playlist) - 1 :
        /\ r # current_row
        /\ Install([Cur({}) EXCEPT !.current_row = r])

\* Up / Down
UpPressed ==
    /\ key_up(Cur({})).current_row # current_row
    /\ Install(key_up(Cur({})))

DownPressed ==
    /\ key_down(Cur({})).current_row # current_row
    /\ Install(key_down(Cur({})))

\* btn_reset clicked (or Escape) while no fade is running, or while the
\* player is Stopped
ResetClicked ==
    /\ ~(fade_active /\ pstate # "Stopped")
    /\ Install(reset_playback(Cur({})))

\* Escape pressed again while the fade of an earlier stop is running: fade_out
\* is entered a second time.  A run has at most MaxRefade such calls.
ResetDuringFade ==
    /\ fade_active /\ pstate # "Stopped"
    /\ refades < MaxRefade
    /\ Install(reset_playback(Cur({})))

\* btn_next / btn_prev clicked
NextClicked ==
    \E m \in MissingAt(current_row + 1, current_row + 2) :
        /\ current_row < Len(playlist) - 1
        /\ Install(skip_to_next(Cur(m)))

PrevClicked ==
    \E m \in MissingAt(current_row - 1, current_row) :
        /\ current_row > 0
        /\ Install(skip_to_previous(Cur(m)))

\* btn_opener clicked (or Ctrl+O) and a folder or a file chosen
FolderOpened ==
    \E f \in Folders : Install(open_file_dialog(Cur({}), f, 0))

FileOpened ==
    \E t \in AllTracks :
        Install(open_file_dialog(Cur({}), 1, t))

\* MainWindow.progress_bar_clicked: a click inside the bar is a position
\* before the end
progress_bar_clicked(s, p) ==
    IF s.current_track = NoTrack THEN s ELSE seek(s, p)

ProgressBarClicked ==
    \E p \in 0 .. Duration - 1 :
        Install(progress_bar_clicked(Cur({}), p))

\* ------------------------------------------------- timer and audio service
\* fade_timer.timeout
FadeTick ==
    \E m \in MissingAt(current_row + 1, current_row + 1), e \in RoundErr :
        /\ fade_active
        /\ Install(fade_step(Cur(m), e))

\* The playing track reaches its end: the player is Stopped at the end
\* position and MainWindow gets playbackStateChanged(Stopped) and
\* mediaStatusChanged(EndOfMedia), one after the other, in either order.
end_of_track(s, state_first) ==
    LET a == [s EXCEPT !.pstate = "Stopped", !.pos = Duration]
    IN  IF state_first
        THEN handle_media_status_changed(
                 handle_playback_state_changed(a, "Stopped"))
        ELSE handle_playback_state_changed(
                 handle_media_status_changed(a), "Stopped")

EndOfTrack ==
    \E m \in MissingAt(current_row + 1, current_row + 2),
       state_first \in BOOLEAN :
        /\ pstate = "Playing"
        /\ Install(end_of_track(Cur(m), state_first))

Next ==
    \/ RepeatClicked
    \/ PlayAllClicked
    \/ MuteClicked
    \/ VolumeMoved
    \/ PlayPauseClicked
    \/ EnterPressed
    \/ ItemDoubleClicked
    \/ ItemClicked
    \/ UpPressed
    \/ DownPressed
    \/ ResetClicked
    \/ NextClicked
    \/ PrevClicked
    \/ FolderOpened
    \/ FileOpened
    \/ ProgressBarClicked
    \/ FadeTick
    \/ EndOfTrack

\* Every event but the speed slider (SpecSpeed has it), with a stop
\* requested only while no fade is running
Spec == Init /\ [][Next]_vars

\* The fade: transport events over the playlist of startup, volume and mute
\* left as startup set them, with a stop requested also while a fade is
\* running
NextFade ==
    \/ PlayPauseClicked
    \/ EnterPressed
    \/ ResetClicked
    \/ ResetDuringFade
    \/ FadeTick
    \/ EndOfTrack

SpecFade == Init /\ [][NextFade]_vars

\* The transport alone: every event of Next but the volume slider and the
\* mute box, from the stored sections that leave volume, mute and speed at
\* their defaults
InitTransport ==
    \E stored \in StoredSettings :
        /\ stored.volume = DefaultVolume /\ ~stored.mute
        /\ stored.speed = DefaultSpeed
        /\ StartsFrom(stored)
        /\ cm = Unfollowed /\ tm = Unfollowed /\ disk = {}

NextTransport ==
    \/ RepeatClicked
    \/ PlayAllClicked
    \/ PlayPauseClicked
    \/ EnterPressed
    \/ ItemDoubleClicked
    \/ ItemClicked
    \/ UpPressed
    \/ DownPressed
    \/ ResetClicked
    \/ NextClicked
    \/ PrevClicked
    \/ FolderOpened
    \/ FileOpened
    \/ ProgressBarClicked
    \/ FadeTick
    \/ EndOfTrack

SpecTransport == InitTransport /\ [][NextTransport]_vars

\* The speed: transport events and the speed slider, from every stored speed
NextSpeed ==
    \/ SpeedMoved
    \/ PlayPauseClicked
    \/ EnterPressed
    \/ ResetClicked
    \/ FadeTick
    \/ EndOfTrack

SpecSpeed == InitSpeed /\ [][NextSpeed]_vars

\* ------------------------------------------- the preferences store alone
\* One store a is given values, saved, and a second store b is constructed
\* from the file; the player stays as installed.
InitConfig ==
    \E stored \in StoredSettings :
        /\ stored = [volume |-> DefaultVolume, speed |-> DefaultSpeed,
                     repeat |-> FALSE, mute |-> FALSE, play_all |-> FALSE,
                     last_folder |-> 0, last_track |-> NoTrack]
        /\ StartsFrom(stored)
        /\ cm = ConfigFresh /\ tm = Unfollowed /\ disk = {}

playervars ==
    <<repeat, play_all, mute, volume, speed, rate, ignore_auto_advance,
      user_stopped, current_folder, playlist, current_row, current_track,
      pstate, pos, gain, gain_err, original_volume, fade_active, settings,
      ticks, refades, base0>>

\* a.set(k, v)
ConfigSet ==
    \E k \in Keys : \E v \in ValuesFor(k) :
        /\ ~cm.saved /\ ~cm.opened /\ cm.a.raised = "none"
        /\ v # cm.a.section[k]
        /\ cm' = [cm EXCEPT !.a = ConfigManager_set(cm.a, k, v)]
        /\ UNCHANGED <<playervars, tm, disk>>

\* a.save_settings()
ConfigSave ==
    /\ ~cm.saved /\ ~cm.opened /\ cm.a.raised = "none"
    /\ cm' = [cm EXCEPT !.saved = TRUE, !.file = FileRead(cm.a)]
    /\ UNCHANGED <<playervars, tm, disk>>

\* The key sets a file is cut down to
FileKeySets == {{}, {"volume"}, Keys \ {"speed"}}

\* The file is edited: only the keys of K stay in it
ConfigFileCut ==
    \E K \in FileKeySets :
        /\ cm.saved /\ ~cm.cut /\ ~cm.opened
        /\ cm' = [cm EXCEPT !.cut = TRUE,
                            !.file = [k \in K \cap DOMAIN cm.file |-> cm.file[k]]]
        /\ UNCHANGED <<playervars, tm, disk>>

\* b = ConfigManager(file), the file saved, cut or not there
ConfigReopen ==
    /\ ~cm.opened
    /\ cm' = [cm EXCEPT !.opened = TRUE, !.b = ConfigManager_load(cm.file)]
    /\ UNCHANGED <<playervars, tm, disk>>

NextConfig == ConfigSet \/ ConfigSave \/ ConfigFileCut \/ ConfigReopen

SpecConfig == InitConfig /\ [][NextConfig]_vars

\* --------------------------------------------- the track catalog alone
\* A TrackManager over every disk of at most MaxFiles files; the player
\* stays as installed.
InitScan ==
    \E stored \in StoredSettings :
        /\ stored = [volume |-> DefaultVolume, speed |-> DefaultSpeed,
                     repeat |-> FALSE, mute |-> FALSE, play_all |-> FALSE,
                     last_folder |-> 0, last_track |-> NoTrack]
        /\ StartsFrom(stored)
        /\ cm = Unfollowed /\ tm = TrackManager_new /\ disk \in Disks

\* track_manager.set_folder(path)
SetFolder ==
    \E p \in PathArgs :
        /\ tm' = TrackManager_set_folder(tm, disk, p)
        /\ UNCHANGED <<playervars, cm, disk>>

\* track_manager.scan_folder(update_progress), as populate_playlist calls
\* it, the Cancel button pressed or not while it runs
ScanFolder ==
    \E k \in 0 .. MaxFiles :
        /\ tm' = TrackManager_scan_folder(tm, disk, k)
        /\ UNCHANGED <<playervars, cm, disk>>

\* The relative paths get_absolute_path is tried with
RelArgs == {<<n>> : n \in FileNames} \cup {<<SubName, n>> : n \in FileNames}

\* track_manager.get_absolute_path(rel)
Resolve ==
    \E rel \in RelArgs :
        /\ tm' = [tm EXCEPT !.resolved = get_absolute_path(tm, rel)]
        /\ UNCHANGED <<playervars, cm, disk>>

\* track_manager.filter_tracks(text), the search box edited
FilterTracks ==
    \E q \in SearchTexts :
        /\ tm' = [tm EXCEPT !.filtered = filter_tracks(tm, q)]
        /\ UNCHANGED <<playervars, cm, disk>>

NextScan == SetFolder \/ ScanFolder \/ Resolve

SpecScan == InitScan /\ [][NextScan]_vars

\* The search box over the catalog of whichever folder is set
NextFilter == SetFolder \/ FilterTracks

SpecFilter == InitScan /\ [][NextFilter]_vars

\* ---------------------------------------------------------------- claims
\* How often command c is in the command sequence q
RECURSIVE Occurrences(_, _)
Occurrences(q, c) ==
    IF q = << >> THEN 0
    ELSE (IF Head(q) = c THEN 1 ELSE 0) + Occurrences(Tail(q), c)

\* The gain the volume slider and the mute box ask for
EffectiveGain == IF mute THEN 0 ELSE Gain(volume)

\* The fade timer step that ends the fade
FadeCompletes == fade_active /\ ~fade_active'

\* C1: in every reachable state, the states right after startup from any
\* stored settings included, repeat and play-all are not both checked (so a
\* step that checks one of them leaves the other unchecked).
C1_ModesExclusive == ~(repeat /\ play_all)

\* C1 witness: play-all is on and repeat is off, while the settings saved
\* last still hold repeat = True: repeat was on and has been taken off since.
C1_Witness == play_all /\ ~repeat /\ settings.repeat /\ ~settings.play_all

\* C2: as long as no stop has been requested (user_stopped is still False, so
\* no fade has touched the gain), after startup and after every update_volume
\* and toggle_mute the output gain is 0 when mute is checked and the slider
\* value / 100 when it is not.
C2_GainFollowsVolumeAndMute ==
    ~user_stopped => gain = EffectiveGain /\ gain_err = 0

\* C2 witness: a paused track, muted with a non-zero slider value: the gain
\* is 0, and stays 0 when the slider is moved
C2_Witness ==
    /\ ~user_stopped /\ pstate = "Paused"
    /\ mute /\ volume > 0 /\ gain = 0
    /\ \E v \in VolumeLevels \ {volume} :
           LET t == volume_slider_setValue(Cur({}), v)
           IN  t.volume = v /\ t.gain = 0

\* C3: in every reachable state, toggling mute leaves the slider value (the
\* recorded volume, which is also the value saved) as it is; moving the
\* slider to v records v, changes the gain only when mute is off, and an
\* unmute that follows sets the gain to v / 100.
C3_MuteKeepsRecordedVolume ==
    /\ LET t == btn_mute_setChecked(Cur({}), ~mute)
       IN  /\ t.volume = volume
           /\ t.settings.volume = volume
           /\ t.gain = IF t.mute THEN 0 ELSE Gain(volume)
    /\ \A v \in VolumeLevels :
           LET t == volume_slider_setValue(Cur({}), v)
               u == btn_mute_setChecked(t, FALSE)
           IN  /\ t.volume = v
               /\ v # volume => t.settings.volume = v
               /\ mute => t.gain = gain
               /\ mute => u.gain = Gain(v) /\ u.volume = v

\* C3 witness: a track plays muted with the slider at 0; moving the slider
\* to the default is recorded and saved with the gain still 0, and the
\* unmute after it brings the gain to the default
C3_Witness ==
    /\ pstate = "Playing" /\ mute /\ gain = 0 /\ volume = 0
    /\ LET t == volume_slider_setValue(Cur({}), DefaultVolume)
           u == btn_mute_setChecked(t, FALSE)
       IN  /\ t.volume = DefaultVolume /\ t.gain = 0
           /\ t.settings.volume = DefaultVolume
           /\ u.gain = Gain(DefaultVolume) /\ ~u.mute

\* C4 (as claimed): the fade step that ends the fade of a user stop leaves
\* the player Stopped with the selection and the loaded track it had: the
\* Stopped notification of that stop neither advances nor restarts.
C4_UserStopIsNotEndOfTrack ==
    [][(FadeCompletes /\ pstate # "Stopped")
         => /\ pstate' = "Stopped"
            /\ current_row' = current_row
            /\ current_track' = current_track]_vars

\* C5 (as claimed): with play-all on and repeat off, when the selected and
\* loaded track i < N-1 ends (all files present), the selection is i+1 and
\* track i+1 is loaded and Playing.
C5_PlayAllAdvancesToNext ==
    \A sf \in BOOLEAN :
        (/\ pstate = "Playing" /\ play_all /\ ~repeat
         /\ current_row >= 0 /\ current_row < Len(playlist) - 1
         /\ current_track = playlist[current_row + 1])
        => LET t == end_of_track(Cur({}), sf)
           IN  /\ t.current_row = current_row + 1
               /\ t.current_track = playlist[current_row + 2]
               /\ t.pstate = "Playing"

\* C6 (as claimed): with play-all on, one end of track, its two
\* notifications handled in either order, moves the selection by exactly one
\* row and loads and plays exactly one track.
C6_EndOfTrackAdvancesOnce ==
    \A sf \in BOOLEAN :
        (/\ pstate = "Playing" /\ play_all /\ ~repeat
         /\ current_row >= 0 /\ current_row < Len(playlist) - 1)
        => LET t == end_of_track(Cur({}), sf)
           IN  /\ t.current_row = current_row + 1
               /\ Occurrences(t.cmds, "load") = 1
               /\ Occurrences(t.cmds, "play") = 1

\* What C7 says of the end of the loaded track, for every order of the two
\* notifications and every missing file: nothing is sent to the audio
\* service, and selection, loaded track and Stopped state are left.
NothingFurther ==
    \A sf \in BOOLEAN, m \in MissingChoices :
        LET t == end_of_track(Cur(m), sf)
        IN  /\ t.cmds = << >>
            /\ t.current_row = current_row
            /\ t.current_track = current_track
            /\ t.pstate = "Stopped"
            /\ t.pos = Duration

\* C7 (as claimed): play-all on, repeat off, the loaded track is the last
\* entry of the playlist and ends: nothing further happens.
C7_LastTrackSettles_Original ==
    (/\ pstate = "Playing" /\ play_all /\ ~repeat
     /\ Len(playlist) > 0 /\ current_track = playlist[Len(playlist)])
    => NothingFurther

\* C7 (amended): play-all on, repeat off, the loaded track is the last entry
\* of the playlist, the selection is on it, and it ends: nothing further
\* happens.
C7_LastTrackSettles ==
    (/\ pstate = "Playing" /\ play_all /\ ~repeat
     /\ Len(playlist) > 0 /\ current_track = playlist[Len(playlist)]
     /\ current_row = Len(playlist) - 1)
    => NothingFurther

\* C7 witness: the last track has ended (only the end of a track leaves the
\* position at Duration) and the player rests Stopped on it
C7_Witness ==
    /\ play_all /\ ~repeat /\ pstate = "Stopped" /\ pos = Duration
    /\ Len(playlist) = MaxTracks /\ current_row = MaxTracks - 1
    /\ current_track = playlist[MaxTracks]

\* C8: with repeat on, when the playing track ends, for either order of the
\* two notifications: seek(0) and play are sent (nothing else), the loaded
\* track and the selection are the same, the position is 0 and the player is
\* Playing.
C8_RepeatRestartsSameTrack ==
    \A sf \in BOOLEAN, m \in MissingChoices :
        (pstate = "Playing" /\ repeat)
        => LET t == end_of_track(Cur(m), sf)
           IN  /\ t.cmds \in {<<"seek", "play">>,
                              <<"seek", "play", "seek", "play">>}
               /\ t.current_track = current_track
               /\ t.current_track # NoTrack
               /\ t.current_row = current_row
               /\ t.pos = 0
               /\ t.pstate = "Playing"

\* C8 witness: a track plays under repeat with the suppress flag cleared, so
\* that both notifications restart it
C8_Witness ==
    /\ pstate = "Playing" /\ repeat /\ ~ignore_auto_advance
    /\ end_of_track(Cur({}), TRUE).cmds = <<"seek", "play", "seek", "play">>
    /\ end_of_track(Cur({}), TRUE).pstate = "Playing"

\* C9 (as claimed): with slider and mute left alone, when a fade ends the
\* gain is the gain there was when the fade was first requested, also when
\* the stop was requested again while the fade ran.
C9_FadeRestoresFirstGain ==
    [][FadeCompletes => gain' = base0]_vars

\* The gain is where the fade alone has taken it: nobody moved the volume or
\* the mute since fade_out
OnFadeTrajectory ==
    gain = Max(0, original_volume - ticks * (original_volume \div fade_steps))

\* C10 (as claimed): with the volume left alone, the stop is sent by the
\* 10th tick of the fade timer after fade_out, whatever the gain was then.
C10_StopOnTenthTick ==
    [][(FadeCompletes /\ OnFadeTrajectory) => ticks + 1 = fade_steps]_vars

\* C11 (as claimed): whenever the player becomes Playing, by
\* play_selected_track or by the play/pause toggle, the playback rate of the
\* audio service is the value of the speed slider.
C11_RateFollowsSpeedAtPlay ==
    [][(pstate # "Playing" /\ pstate' = "Playing") => rate' = speed']_vars

\* The values in the settings file are the values the widgets show
SettingsCurrent ==
    /\ settings.volume = volume
    /\ settings.speed = speed
    /\ settings.mute = mute
    /\ settings.repeat = repeat
    /\ settings.play_all = play_all

\* C12 (as claimed): after every user action that changes volume, speed,
\* mute, repeat or play-all, the settings file holds the current values of
\* the five.
C12_SettingsSavedOnChange ==
    [][(<<volume, speed, mute, repeat, play_all>>'
            # <<volume, speed, mute, repeat, play_all>>)
         => SettingsCurrent']_vars

\* C13 (as claimed): once a store has been saved and a second store has been
\* constructed from the file, the second store was constructed without an
\* error and returns for every known key the value the first one returns.
C13_RoundTrip ==
    (cm.opened /\ cm.saved /\ ~cm.cut) =>
        /\ cm.b.raised = "none"
        /\ \A k \in Keys : ConfigManager_get(cm.b, k) = ConfigManager_get(cm.a, k)

\* What the spec counts as a parsable boolean
IsBool(v) ==
    Lower(v) \in TrueStrings \cup {<<"f", "a", "l", "s", "e">>, <<"n", "o">>,
                                   <<"0">>, <<"o", "f", "f">>}

\* C14 (as claimed): for every key whose stored string is not an int,
\* get_int returns the default passed, and for every key whose stored string
\* is not a boolean, get_bool returns the default passed, True or False.
C14_LenientParsing ==
    \A k \in Keys :
        /\ ~IsInt(ConfigManager_get(cm.a, k))
               => \A n \in {0, DefaultVolume} : get_int(cm.a, k, n) = n
        /\ ~IsBool(ConfigManager_get(cm.a, k))
               => \A d \in BOOLEAN : get_bool(cm.a, k, d) = d

\* The tracks the walk of the current folder had found when the callback
\* first answered False
FoundBeforeCancel ==
    SubSeq(ScanLoop(Walk(disk, tm.current_folder), tm.current_folder, << >>),
           1, tm.cancel_at)

\* C15 (as claimed): after a scan whose callback reported the cancel once k
\* files were found, the catalog holds the k tracks found up to then.
C15_CancelStopsScan ==
    (tm.current_folder # NoFolder /\ tm.cancel_at > 0
        /\ tm.cancel_at <= Len(tm.returned))
    => tm.track_list = FoundBeforeCancel

\* The selected entry, when there is one in an open folder
HasSelection == current_row # -1 /\ current_folder # 0
Selected == playlist[current_row + 1]

\* C16: when the file of the selected entry is missing, play_selected_track
\* only warns: it sends no stop, load or play, and the playback state, the
\* loaded track (current_track stands for the url, the path and the metadata
\* load_track sets together), the suppress flag and everything else stay as
\* they were; AudioPlayer.load_track of a missing path changes nothing
\* either.
C16_MissingFileChangesNothing ==
    \A m \in MissingChoices :
        /\ (HasSelection /\ Selected \in m) =>
               LET s == Cur(m)
                   t == play_selected_track(s)
               IN  /\ t.cmds = <<"warn">>
                   /\ [t EXCEPT !.cmds = << >>, !.calls = 0] = s
        /\ \A f \in m : load_track(Cur(m), f) = Cur(m)

\* A track plays, another entry is selected whose file is gone, and playing
\* the selection leaves the first track playing
C16_Witness ==
    /\ HasSelection
    /\ pstate = "Playing"
    /\ current_track # Selected
    /\ ~ignore_auto_advance
    /\ LET t == play_selected_track(Cur({Selected}))
       IN  /\ t.pstate = "Playing"
           /\ t.current_track = current_track
           /\ t.cmds = <<"warn">>

\* What play, seek and the reset action do in the current state
TransportOutcomes ==
    {play(Cur({})), seek(Cur({}), 0), reset_playback(Cur({}))}

\* C17 (as claimed): while no track was ever loaded, play, seek and the reset
\* action send nothing to the audio service, start no timer and leave the
\* player Stopped with no track.
C17_NoTrackTransportIsNoOp ==
    current_track = NoTrack =>
        \A t \in TransportOutcomes :
            /\ t.cmds = << >>
            /\ t.timers = << >>
            /\ t.pstate = "Stopped"
            /\ t.current_track = NoTrack

\* C18: set_folder with a path that does not exist or is no directory
\* returns False and leaves the folder and the catalog; with a directory it
\* returns True, the folder is that directory and the catalog is what a scan
\* of it gives.
C18_SetFolderValidates ==
    \A p \in PathArgs :
        LET r == TrackManager_set_folder(tm, disk, p)
        IN  IF exists(disk, p) /\ is_dir(disk, p)
            THEN /\ r.ok
                 /\ r.current_folder = p.d
                 /\ r.track_list =
                        ScanLoop(Walk(disk, p.d), p.d, << >>)
            ELSE /\ ~r.ok
                 /\ r.current_folder = tm.current_folder
                 /\ r.track_list = tm.track_list

\* A folder with tracks was set, and a later set_folder was refused
C18_Witness ==
    /\ ~tm.ok
    /\ tm.current_folder # NoFolder
    /\ Len(tm.track_list) > 0
    /\ \E p \in PathArgs : p.kind = "file" /\ exists(disk, p)

\* C19 (as claimed): get_absolute_path without a folder raises NoActiveFolder
\* and returns nothing; with a folder it returns the folder joined with the
\* relative path.
C19_ResolveNeedsFolder ==
    \A rel \in RelArgs :
        LET r == get_absolute_path(tm, rel)
        IN  IF tm.current_folder = NoFolder
            THEN r.raised = "NoActiveFolder"
            ELSE /\ r.raised = "none"
                 /\ ~r.is_none
                 /\ r.path = DirPath(tm.current_folder) \o rel

\* The name ends in e, upper and lower case taken as the same
EndsInIgnoringCase(name, e) ==
    /\ Len(name) >= Len(e)
    /\ \A i \in 1 .. Len(e) :
           LowerChar(name[Len(name) - Len(e) + i]) = LowerChar(e[i])

\* The audio files at any depth under directory d
AudioFilesUnder(d) ==
    {f \in disk : /\ f.d >= d
                  /\ \E e \in supported_extensions :
                         EndsInIgnoringCase(f.name, e)}

\* C20: once a folder is set and scanned, the catalog holds the audio files
\* under it, at any depth, each once as its path relative to the folder, and
\* nothing else; without a folder scan_folder returns the empty list and
\* leaves the catalog.
C20_CatalogIsAudioFilesUnderRoot ==
    IF tm.current_folder = NoFolder
    THEN LET r == TrackManager_scan_folder(tm, disk, 0)
         IN  r.returned = << >> /\ r.track_list = tm.track_list
    ELSE /\ {tm.track_list[i] : i \in 1 .. Len(tm.track_list)}
               = {RelPath(tm.current_folder, f) :
                      f \in AudioFilesUnder(tm.current_folder)}
         /\ Len(tm.track_list) = Cardinality(AudioFilesUnder(tm.current_folder))
         /\ tm.returned = tm.track_list

\* The scan of the music folder found b.Ogg in the sub-directory and left
\* out a file of the disk
C20_Witness ==
    /\ tm.current_folder = 0
    /\ \E i \in 1 .. Len(tm.track_list) :
           tm.track_list[i] = <<SubName, NameOrder[2]>>
    /\ Len(tm.track_list) < Cardinality(disk)

\* q occurs in v, upper and lower case taken as the same
OccursIgnoringCase(q, v) ==
    \E off \in 0 .. Len(v) - Len(q) :
        \A j \in 1 .. Len(q) : LowerChar(q[j]) = LowerChar(v[off + j])

\* C21: filter_tracks gives one pair per catalog entry, in catalog order,
\* visible exactly when the text occurs in the relative path, case ignored;
\* the empty text makes every entry visible; the catalog is as before.
C21_FilterMatchesSubstring ==
    \A q \in SearchTexts :
        LET r == filter_tracks(tm, q)
        IN  /\ Len(r) = Len(tm.track_list)
            /\ \A i \in 1 .. Len(r) :
                   /\ r[i][1] = tm.track_list[i]
                   /\ r[i][2] = OccursIgnoringCase(q, PathStr(tm.track_list[i]))
                   /\ q = << >> => r[i][2]

\* b.Ogg in the sub-directory and another track are listed, and the last
\* search showed one and hid the other
C21_Witness ==
    /\ Len(tm.filtered) = Len(tm.track_list)
    /\ \E i, j \in 1 .. Len(tm.filtered) :
           /\ tm.filtered[i] = << <<SubName, NameOrder[2]>>, TRUE >>
           /\ ~tm.filtered[j][2]

\* C22: playbackStateChanged(Stopped) handled while ignore_auto_advance is
\* set clears the flag and nothing else (no command, same selection, same
\* track), whatever repeat and play_all are; playbackStateChanged with
\* another state changes nothing.
C22_SuppressedStopOnlyClearsFlag ==
    \A m \in MissingChoices :
        LET s == Cur(m)
        IN  /\ ignore_auto_advance =>
                   handle_playback_state_changed(s, "Stopped")
                       = [Enter(s) EXCEPT !.ignore_auto_advance = FALSE]
            /\ \A state \in {"Playing", "Paused"} :
                   handle_playback_state_changed(s, state) = s

\* The flag is set with repeat on and the track at its end, or with play_all
\* on and a next entry to go to, and the handler only clears the flag
C22_Witness ==
    /\ ignore_auto_advance
    /\ current_track # NoTrack
    /\ \/ repeat /\ pos = Duration
       \/ play_all /\ current_row < Len(playlist) - 1
    /\ LET t == handle_playback_state_changed(Cur({}), "Stopped")
       IN  /\ ~t.ignore_auto_advance
           /\ t.cmds = << >>
           /\ t.current_row = current_row

\* What each user action and each notification gives in the current state
EventOutcomes ==
    UNION {
        {toggle_play_pause(Cur(m)), play_selected_track(Cur(m)),
         skip_to_next(Cur(m)), skip_to_previous(Cur(m)),
         reset_playback(Cur(m))}
        \cup {play_selected_track([Cur(m) EXCEPT !.current_row = r]) :
                 r \in 0 .. Len(playlist) - 1}
        \cup {open_file_dialog(Cur(m), 1, f) : f \in AllTracks \cup {0}}
        \cup (IF fade_active
              THEN {fade_step(Cur(m), e) : e \in RoundErr} ELSE {})
        \cup (IF pstate = "Playing"
              THEN {end_of_track(Cur(m), sf) : sf \in BOOLEAN} ELSE {})
        : m \in MissingChoices}

\* The most invocations of play_selected_track and
\* handle_playback_state_changed(Stopped) one event leads to
MaxHandlerCalls == 4

\* C23: handling one user action or one notification ends, the Stopped
\* notifications of the stop and play commands being handled inside them:
\* an event leads to at most MaxHandlerCalls invocations of
\* play_selected_track and handle_playback_state_changed, whatever repeat,
\* play_all, the flag and the length of the playlist are.
C23_HandlersTerminate ==
    \A t \in EventOutcomes : t.calls <= MaxHandlerCalls

\* A track plays with play_all on and a next entry: playing another entry
\* stops the track, the Stopped handler starts the next entry, and the
\* handler is entered again when the chosen track is loaded
C23_Witness ==
    /\ pstate = "Playing" /\ play_all /\ ~ignore_auto_advance
    /\ current_row # -1 /\ current_row < Len(playlist) - 1
    /\ play_selected_track(Cur({})).calls = 4

\* C24: the selection is no row (-1) or a row of the playlist, in every
\* reachable state: after skip_to_next, skip_to_previous, Up, Down and both
\* end-of-track handlers, on an empty playlist and at the first and last
\* rows too.
C24_SelectionInRange ==
    current_row = -1 \/ (0 <= current_row /\ current_row < Len(playlist))

\* The selection is on the last of several rows while a track plays with
\* play_all on, and Down, Next and the end of the track leave it there
C24_Witness ==
    /\ Len(playlist) > 1
    /\ current_row = Len(playlist) - 1
    /\ pstate = "Playing" /\ play_all /\ ~repeat
    /\ key_down(Cur({})).current_row = current_row
    /\ skip_to_next(Cur({})).current_row = current_row
    /\ \A sf \in BOOLEAN : end_of_track(Cur({}), sf).current_row = current_row

\* C25: a store holds a value for every known key once constructed: without
\* a file, or for the keys a file lacks, the default; and a save writes
\* every known key.
C25_EveryKeyAlways ==
    /\ DOMAIN cm.a.section = Keys
    /\ (cm.opened /\ cm.b.raised = "none") =>
           /\ DOMAIN cm.b.section = Keys
           /\ \A k \in Keys \ DOMAIN cm.file : cm.b.section[k] = defaults[k]
    /\ (cm.saved /\ ~cm.cut) => DOMAIN cm.file = Keys

\* A store constructed from a file that lacks speed and holds another
\* volume than the default
C25_Witness ==
    /\ cm.opened /\ cm.saved /\ cm.cut
    /\ cm.b.raised = "none"
    /\ DOMAIN cm.file = Keys \ {"speed"}
    /\ cm.b.section["volume"] # defaults["volume"]
    /\ cm.a.section["speed"] # defaults["speed"]
    /\ cm.b.section["speed"] = defaults["speed"]

\* Track playlist[r + 1] was started by the outcome t: it is loaded and
\* Playing, row r is selected, and one track was loaded
StartedRow(t, r) ==
    /\ t.pstate = "Playing"
    /\ t.current_track = playlist[r + 1]
    /\ t.current_row = r
    /\ Occurrences(t.cmds, "load") = 1

\* C26 (as claimed): while a track plays, a double-click or Enter on another
\* entry, Next and Previous start the chosen entry, whatever play_all,
\* repeat and the flag are: the stop of the old track is not taken for its
\* end.
C26_ChosenTrackStarts ==
    pstate = "Playing" =>
        /\ \A r \in 0 .. Len(playlist) - 1 :
               playlist[r + 1] # current_track =>
                   StartedRow(play_selected_track(
                                  [Cur({}) EXCEPT !.current_row = r]), r)
        /\ (current_row < Len(playlist) - 1
               /\ playlist[current_row + 2] # current_track)
             => StartedRow(skip_to_next(Cur({})), current_row + 1)
        /\ (current_row > 0 /\ playlist[current_row] # current_track)
             => StartedRow(skip_to_previous(Cur({})), current_row - 1)

\* C27 (as claimed): ignore_auto_advance is set only while a track change
\* asked by the user is being handled, up to the Stopped notification the
\* change provokes; the notification is delivered inside the change, so the
\* flag is clear whenever an event has been handled: it is not set while a
\* track plays towards its end, nor after a play or a skip from Stopped.
C27_FlagOnlyWhileChanging == ~ignore_auto_advance

\* C28 (as claimed): a track the user starts while a fade runs is left alone
\* by the fade: the next tick of the fade timer, the last one included,
\* neither stops it nor lowers its gain.
C28_FadeSparesNewTrack ==
    (fade_active /\ pstate # "Stopped") =>
        \A r \in 0 .. Len(playlist) - 1 : \A e \in RoundErr :
            LET t == play_selected_track([Cur({}) EXCEPT !.current_row = r])
                u == fade_step(t, e)
            IN  (t.pstate = "Playing" /\ t.fade_active) =>
                    /\ u.pstate = "Playing"
                    /\ u.gain = t.gain

\* C29 (as claimed): when a fade ends, the gain is the one the volume slider
\* and the mute box ask for then, whatever was done to them while it ran.
C29_FadeKeepsVolumeChanges ==
    [][FadeCompletes => gain' = EffectiveGain']_vars

\* TrackManager.track_list: what the last scan found; set_folder scans, so
\* it is the scan of the current folder
track_list == scan_folder(current_folder)

\* C30 (as claimed): once a folder or a file has been chosen, or the last
\* folder restored at startup, the playlist holds the entries of the
\* TrackManager catalog, in its order.
C30_PlaylistIsCatalog == playlist = track_list

====
